---- MODULE Spec2Model ----
(***************************************************************************)
(* call_deepseek_chat (src/src/Model/call_deepseek_chat.py): one chat      *)
(* completion request sent with a retry loop and a capped exponential      *)
(* backoff.  Every invocation of the function is a "call" with its own     *)
(* locals; the transport (requests.post), the sleep primitive (time.sleep) *)
(* and the process environment (os.getenv) are the collaborators.          *)
(***************************************************************************)
EXTENDS Integers, Sequences, FiniteSets

VARIABLES calls, env, transport, latency

vars == <<calls, env, transport, latency>>

\* ---------------------------------------------------------------- bounds
MaxRetries == 6
MaxRetriesConc == 3
MaxRetriesReq == 3
MaxRetriesLive == 4
MaxRetriesTransient == 4
MaxRetriesTime == 6
MaxTimeout == 2
JunkLen == 203

\* ------------------------------------------------------- program constants
BackoffCap == 8
ExcerptLen == 200
DefaultMaxTokens == 512
DefaultTimeout == 60

\* -------------------------------------------------------------- data
CallIds == {1, 2}

None == "<None>"

ApiKeys == {None, "", "sk-param"}

EnvValues == {None, "", "sk-env"}

NoErr == [type |-> "None", attempt |-> 0, status_code |-> 0, excerpt |-> <<>>]

NoValue == [json |-> "None", members |-> {}]

\* Response bodies the stub transport serves, as character sequences.
ValidBody == <<"{", "}">>

JunkBody == [i \in 1..JunkLen |-> IF i % 2 = 0 THEN "n" ELSE "o"]

EmptyBody == <<>>

\* What requests.post can do on one attempt: raise (a connection-level
\* error) or deliver a response with a status code and a body text.
Response(name) ==
    CASE name = "ConnErr" -> [raises |-> TRUE,  status_code |-> 0,   text |-> EmptyBody]
      [] name = "200ok"   -> [raises |-> FALSE, status_code |-> 200, text |-> ValidBody]
      [] name = "200junk" -> [raises |-> FALSE, status_code |-> 200, text |-> JunkBody]
      [] name = "401"     -> [raises |-> FALSE, status_code |-> 401, text |-> EmptyBody]
      [] name = "429"     -> [raises |-> FALSE, status_code |-> 429, text |-> EmptyBody]
      [] name = "500"     -> [raises |-> FALSE, status_code |-> 500, text |-> EmptyBody]
      [] name = "501"     -> [raises |-> FALSE, status_code |-> 501, text |-> EmptyBody]
      [] name = "502"     -> [raises |-> FALSE, status_code |-> 502, text |-> EmptyBody]
      [] name = "503"     -> [raises |-> FALSE, status_code |-> 503, text |-> EmptyBody]
      [] name = "504"     -> [raises |-> FALSE, status_code |-> 504, text |-> EmptyBody]

Responses == {"ConnErr", "200ok", "200junk", "401", "429", "503"}

\* a gateway in trouble: the other server-side statuses
ServerFaults == {"200ok", "500", "501", "502", "504"}

Transports == {Responses, ServerFaults}

ConcResponses == {"ConnErr", "200ok", "401", "429"}

\* an endpoint whose only failures are the transient ones
TransientFaults == {"ConnErr", "200ok", "429", "503"}

\* an endpoint that is in reach but overloaded
Overloaded == {"200ok", "429"}

Min(a, b) == IF a < b THEN a ELSE b

\* -------------------------------------------------------------- helpers
\* variant: the environment value wins over the parameter
ResolveKeyEnvFirst(api_key, e) == IF e # None /\ e # "" THEN e ELSE api_key

\* variant: only an absent key counts as missing
TruthyNotNone(s) == s # None

\* line 43: api_key or os.getenv("DEEPSEEK_API_KEY")
Truthy(s) == s # None /\ s # ""

ResolveKey(api_key, e) == IF Truthy(api_key) THEN api_key ELSE e

\* line 78
IsRetriableStatus(status_code) == status_code \in {429, 500, 502, 503, 504}

\* line 84: Response.raise_for_status raises for 4xx and 5xx
RaisesForStatus(status_code) == 400 <= status_code /\ status_code < 600

\* variants: the cap forgotten; the exponent off by one
BackoffUncapped(attempt) == 2 ^ (attempt - 1)

BackoffFromTwo(attempt) == Min(2 ^ attempt, BackoffCap)

\* lines 80, 95: min(2 ** (attempt - 1), 8)
Backoff(attempt) == Min(2 ^ (attempt - 1), BackoffCap)

\* variant: a decoder that accepts any non-empty body
IsJsonLenient(text) == Len(text) > 0

\* line 87: resp.json()
IsJson(text) == text = ValidBody

JsonDecode(text) ==
    IF text = ValidBody THEN [json |-> "object", members |-> {}] ELSE NoValue

\* line 89: resp.text[:200]
Excerpt(text) == SubSeq(text, 1, Min(Len(text), ExcerptLen))

\* exceptions, each a fresh object identified by the attempt that raised it
ConnectionError(attempt) ==
    [type |-> "ConnectionError", attempt |-> attempt, status_code |-> 0,
     excerpt |-> <<>>]

HTTPError(attempt, status_code) ==
    [type |-> "HTTPError", attempt |-> attempt, status_code |-> status_code,
     excerpt |-> <<>>]

NonJsonError(attempt, text) ==
    [type |-> "ValueError:non-JSON", attempt |-> attempt, status_code |-> 0,
     excerpt |-> Excerpt(text)]

MissingKeyError ==
    [type |-> "ValueError:missing-api_key", attempt |-> 0, status_code |-> 0,
     excerpt |-> <<>>]

\* line 100: raise RuntimeError("Request failed") from last_err
RequestFailed ==
    [type |-> "RuntimeError", attempt |-> 0, status_code |-> 0, excerpt |-> <<>>]

\* ------------------------------------------------------ the request
\* messages a caller may pass: OpenAI-style role/content pairs
UserHi == [role |-> "user", content |-> "hi"]

SystemBrief == [role |-> "system", content |-> "You are a concise assistant."]

AssistantHello == [role |-> "assistant", content |-> "hello"]

DefaultMessages == <<SystemBrief, UserHi>>

MessageLists ==
    {<<>>, <<UserHi>>, DefaultMessages, <<UserHi, AssistantHello, UserHi>>}

Models == {"deepseek-chat", "deepseek-reasoner"}

Temperatures == {"0.7", "0.2"}

NoHeaders == [Authorization |-> <<>>, ContentType |-> "", Accept |-> ""]

NoPayload == [model |-> "", messages |-> <<>>, temperature |-> "", max_tokens |-> 0]

\* lines 47-52
Headers(api_key) ==
    [Authorization |-> <<"Bearer", api_key>>,
     ContentType |-> "application/json",
     Accept |-> "application/json"]

\* variant: a system message put in front of the caller's messages
PayloadWithPreamble(model, messages, temperature, max_tokens) ==
    [model |-> model, messages |-> <<SystemBrief>> \o messages,
     temperature |-> temperature, max_tokens |-> max_tokens]

\* lines 54-64
Payload(model, messages, temperature, max_tokens) ==
    [model |-> model, messages |-> messages,
     temperature |-> temperature, max_tokens |-> max_tokens]

\* lines 70-75: what one requests.post call is given
Request(rec) ==
    [attempt |-> rec.attempt, headers |-> rec.headers, json |-> rec.payload,
     timeout |-> rec.timeout_s]

\* -------------------------------------------------- one call's locals
\* The state of one invocation before its first statement runs: its
\* arguments (lines 8-18), its locals not yet bound, and the logs of what the
\* transport and the sleep primitive were asked for.
NewCallWith(api_key, max_retries, messages, model, temperature, max_tokens, timeout_s) ==
    [pc |-> "entry", api_key |-> api_key, max_retries |-> max_retries,
     messages |-> messages, model |-> model, temperature |-> temperature,
     max_tokens |-> max_tokens, timeout_s |-> timeout_s,
     given_key |-> api_key, env_at_entry |-> None,
     headers |-> NoHeaders, payload |-> NoPayload,
     attempt |-> 0, last_err |-> NoErr, wait_s |-> 0,
     hist |-> <<>>, sent |-> <<>>, sleeps |-> <<>>, elapsed |-> 0,
     value |-> NoValue, exc |-> NoErr, cause |-> NoErr]

\* a call with the default keyword arguments (lines 13-16)
NewCall(api_key, max_retries) ==
    NewCallWith(api_key, max_retries, DefaultMessages, "deepseek-chat", "0.7",
                DefaultMaxTokens, DefaultTimeout)

IdleCall == [NewCall(None, 0) EXCEPT !.pc = "idle"]

\* an exception leaves the function
Raise(rec, e, cause) == [rec EXCEPT !.pc = "raised", !.exc = e, !.cause = cause]

\* variants: one index too many; a first attempt whatever max_retries is
NextAttemptOneMore(rec) ==
    IF rec.attempt + 1 <= rec.max_retries + 1
    THEN [rec EXCEPT !.pc = "post", !.attempt = rec.attempt + 1]
    ELSE Raise(rec, RequestFailed, rec.last_err)

NextAttemptAtLeastOnce(rec) ==
    IF rec.attempt = 0 \/ rec.attempt + 1 <= rec.max_retries
    THEN [rec EXCEPT !.pc = "post", !.attempt = rec.attempt + 1]
    ELSE Raise(rec, RequestFailed, rec.last_err)

\* line 68: the for statement takes the next index of range(1, max_retries + 1),
\* or the loop is over and line 100 raises
NextAttempt(rec) ==
    IF rec.attempt + 1 <= rec.max_retries
    THEN [rec EXCEPT !.pc = "post", !.attempt = rec.attempt + 1]
    ELSE Raise(rec, RequestFailed, rec.last_err)

\* lines 43-68: resolve the credential, build headers and payload, enter the loop
EnterRec(rec, e) ==
    LET key == ResolveKey(rec.api_key, e)
        r1 == [rec EXCEPT !.api_key = key, !.env_at_entry = e]
        r2 == [r1 EXCEPT !.headers = Headers(key),
                         !.payload = Payload(rec.model, rec.messages,
                                             rec.temperature, rec.max_tokens)]
    IN  IF ~Truthy(key) THEN Raise(r1, MissingKeyError, NoErr)
        ELSE NextAttempt(r2)

\* variant: the final attempt reports the status instead of backing off
RetryStatusUnlessLast(rec) ==
    IF rec.attempt < rec.max_retries
    THEN [rec EXCEPT !.pc = "sleep", !.wait_s = Backoff(rec.attempt)]
    ELSE Raise(rec, HTTPError(rec.attempt, Response(rec.hist[Len(rec.hist)]).status_code), NoErr)

\* lines 78-82: retriable status, back off and continue
RetryStatus(rec) == [rec EXCEPT !.pc = "sleep", !.wait_s = Backoff(rec.attempt)]

\* variant: the handler gives up at the first exception
CaughtNoRetry(rec, e) == Raise([rec EXCEPT !.last_err = e], e, NoErr)

\* variant: the handler backs off after the final attempt too
CaughtOffByOne(rec, e) ==
    LET r1 == [rec EXCEPT !.last_err = e]
    IN  IF rec.attempt <= rec.max_retries
        THEN [r1 EXCEPT !.pc = "sleep", !.wait_s = Backoff(rec.attempt)]
        ELSE Raise(r1, e, NoErr)

\* lines 91-97: the handler of everything raised inside the try block
Caught(rec, e) ==
    LET r1 == [rec EXCEPT !.last_err = e]
    IN  IF rec.attempt < rec.max_retries
        THEN [r1 EXCEPT !.pc = "sleep", !.wait_s = Backoff(rec.attempt)]
        ELSE Raise(r1, e, NoErr)

\* lines 70-97: one transport invocation and what the loop body does with it,
\* up to the next sleep or to the end of the call
PostRec(rec, name) ==
    LET resp == Response(name)
        r1 == [rec EXCEPT !.hist = Append(rec.hist, name),
                          !.sent = Append(rec.sent, Request(rec))]
    IN  IF resp.raises THEN Caught(r1, ConnectionError(rec.attempt))
        ELSE IF IsRetriableStatus(resp.status_code) THEN RetryStatus(r1)
        ELSE IF RaisesForStatus(resp.status_code)
             THEN Caught(r1, HTTPError(rec.attempt, resp.status_code))
        ELSE IF IsJson(resp.text)
             THEN [r1 EXCEPT !.pc = "returned", !.value = JsonDecode(resp.text)]
        ELSE Caught(r1, NonJsonError(rec.attempt, resp.text))

\* variant: the loop index is not advanced after a backoff
SleepRecSameAttempt(rec) ==
    [rec EXCEPT !.sleeps = Append(rec.sleeps, rec.wait_s),
                !.elapsed = rec.elapsed + rec.wait_s,
                !.pc = "post"]

\* lines 81-82, 95-96: time.sleep returns, then continue
SleepRec(rec) ==
    NextAttempt([rec EXCEPT !.sleeps = Append(rec.sleeps, rec.wait_s),
                            !.elapsed = rec.elapsed + rec.wait_s])

\* line 74: the attempt is over after d time units, or after timeout_s when
\* the transport would take longer (requests raises a Timeout then)
Took(rec, d) == [rec EXCEPT !.elapsed = rec.elapsed + Min(d, rec.timeout_s)]

Outcome(rec, name, d) == IF d > rec.timeout_s THEN "ConnErr" ELSE name

\* variant: last_err kept in a module-level variable all calls share
StepCallSharedErr(cs, c, rec) ==
    [d \in DOMAIN cs |->
        IF d = c THEN rec
        ELSE IF cs[d].pc \in {"post", "sleep"}
             THEN [cs[d] EXCEPT !.last_err = rec.last_err]
             ELSE cs[d]]

\* A step of call c writes the locals of call c.
StepCall(cs, c, rec) == [cs EXCEPT ![c] = rec]

\* The model stops counting the transport invocations of a call two past its
\* budget; the loop of line 68 ends before.
PostCap(rec) == (IF rec.max_retries > 0 THEN rec.max_retries ELSE 0) + 2

\* -------------------------------------------------------------- actions
Enter(c) ==
    /\ calls[c].pc = "entry"
    /\ calls' = StepCall(calls, c, EnterRec(calls[c], env))
    /\ UNCHANGED <<env, transport, latency>>

Post(c) ==
    /\ calls[c].pc = "post"
    /\ Len(calls[c].hist) < PostCap(calls[c])
    /\ \E name \in transport, d \in latency :
          calls' = StepCall(calls, c,
                     PostRec(Took(calls[c], d), Outcome(calls[c], name, d)))
    /\ UNCHANGED <<env, transport, latency>>

Sleep(c) ==
    /\ calls[c].pc = "sleep"
    /\ calls' = StepCall(calls, c, SleepRec(calls[c]))
    /\ UNCHANGED <<env, transport, latency>>

Next == \E c \in CallIds : Enter(c) \/ Post(c) \/ Sleep(c)

\* one call, every response of the stub transport
Init ==
    /\ \E k \in ApiKeys, m \in (0 - 1)..MaxRetries :
          calls = [c \in CallIds |-> IF c = 1 THEN NewCall(k, m) ELSE IdleCall]
    /\ env \in EnvValues
    /\ transport \in Transports
    /\ latency = {0}

Spec == Init /\ [][Next]_vars

\* two calls in flight at once
InitConc ==
    /\ calls \in [CallIds -> {NewCall(k, m) : k \in ApiKeys \ {None}, m \in 1..MaxRetriesConc}]
    /\ env \in EnvValues
    /\ transport = ConcResponses
    /\ latency = {0}

SpecConc == InitConc /\ [][Next]_vars

\* Every requests.post and every time.sleep of a call returns in the end, so
\* a call that can take a step takes one.
CallStep(c) == Enter(c) \/ Post(c) \/ Sleep(c)

InitLive ==
    /\ \E k \in ApiKeys, m \in (0 - 1)..MaxRetriesLive :
          calls = [c \in CallIds |-> IF c = 1 THEN NewCall(k, m) ELSE IdleCall]
    /\ env \in EnvValues
    /\ transport \in Transports
    /\ latency = {0}

SpecLive == InitLive /\ [][Next]_vars /\ \A c \in CallIds : WF_vars(CallStep(c))

\* one call against an endpoint that fails only transiently
InitTransient ==
    /\ \E k \in ApiKeys \ {None, ""}, m \in 1..MaxRetriesTransient :
          calls = [c \in CallIds |-> IF c = 1 THEN NewCall(k, m) ELSE IdleCall]
    /\ env \in EnvValues
    /\ transport = TransientFaults
    /\ latency = {0}

SpecTransient == InitTransient /\ [][Next]_vars

\* one call with a per-attempt timeout, against a transport that takes any
\* time up to one unit more than the longest timeout
InitTime ==
    /\ \E m \in (0 - 1)..MaxRetriesTime, t \in 1..MaxTimeout :
          calls = [c \in CallIds |->
                     IF c = 1
                     THEN NewCallWith("sk-param", m, DefaultMessages, "deepseek-chat",
                                      "0.7", DefaultMaxTokens, t)
                     ELSE IdleCall]
    /\ env = None
    /\ transport = Overloaded
    /\ latency = 0..(MaxTimeout + 1)

SpecTime == InitTime /\ [][Next]_vars

\* The rest of the process sets or clears DEEPSEEK_API_KEY (os.environ is
\* process-wide; line 43 only reads it).
Setenv ==
    /\ \E v \in EnvValues : v # env /\ env' = v
    /\ UNCHANGED <<calls, transport, latency>>

NextReq == Next \/ Setenv

\* one call with any arguments, in a process whose environment changes
InitReq ==
    /\ \E k \in ApiKeys, m \in 1..MaxRetriesReq, msgs \in MessageLists,
          mdl \in Models, t \in Temperatures :
          calls = [c \in CallIds |->
                     IF c = 1
                     THEN NewCallWith(k, m, msgs, mdl, t, DefaultMaxTokens, DefaultTimeout)
                     ELSE IdleCall]
    /\ env \in EnvValues
    /\ transport = ConcResponses
    /\ latency = {0}

SpecReq == InitReq /\ [][NextReq]_vars

\* ------------------------------------------------------------ vocabulary
Started(c) == calls[c].pc \notin {"idle", "entry"}

Terminal(c) == calls[c].pc \in {"returned", "raised"}

Status(name) == Response(name).status_code

Text(name) == Response(name).text

\* the statuses the retry rule names, and the remaining 4xx/5xx
RetriableCodes == {429, 500, 502, 503, 504}

IsErrorCode(code) == code >= 400 /\ code <= 599

NonRetriableError(name) ==
    /\ ~Response(name).raises
    /\ IsErrorCode(Status(name))
    /\ Status(name) \notin RetriableCodes

Undecodable(name) ==
    /\ ~Response(name).raises
    /\ ~IsErrorCode(Status(name))
    /\ Text(name) # ValidBody

\* the backoff schedule, written out: the sleep after attempt k
Schedule == <<1, 2, 4, 8, 8, 8, 8, 8, 8, 8>>

\* C1: a non-retriable error status at attempt i ends the call there with the
\* HTTP status error of that attempt: i transport invocations, no sleep after it.
C1_NonRetriableStatusFailsImmediately ==
    \A c \in CallIds : \A i \in 1..Len(calls[c].hist) :
        NonRetriableError(calls[c].hist[i]) =>
            /\ calls[c].pc = "raised"
            /\ calls[c].exc.type = "HTTPError"
            /\ calls[c].exc.status_code = Status(calls[c].hist[i])
            /\ Len(calls[c].hist) = i
            /\ Len(calls[c].sleeps) = i - 1

\* C2: a success status with an undecodable body at attempt i ends the call
\* there with the decode error carrying the first 200 characters of the body.
C2_UndecodableBodyFailsTerminally ==
    \A c \in CallIds : \A i \in 1..Len(calls[c].hist) :
        Undecodable(calls[c].hist[i]) =>
            /\ calls[c].pc = "raised"
            /\ calls[c].exc.type = "ValueError:non-JSON"
            /\ calls[c].exc.excerpt = [k \in 1..200 |-> Text(calls[c].hist[i])[k]]
            /\ Len(calls[c].hist) = i
            /\ Len(calls[c].sleeps) = i - 1

\* C3: with no credential in the parameter and none in the environment the
\* call fails with the missing-credential error, the transport is never
\* invoked and nothing sleeps, whatever the other arguments are.
C3_MissingCredentialFailsBeforeNetwork ==
    \A c \in CallIds :
        ( /\ Started(c)
          /\ calls[c].given_key \in {None, ""}
          /\ calls[c].env_at_entry \in {None, ""} ) =>
            /\ calls[c].pc = "raised"
            /\ calls[c].exc.type = "ValueError:missing-api_key"
            /\ calls[c].hist = <<>>
            /\ calls[c].sleeps = <<>>
            /\ calls[c].attempt = 0

C3_Witness ==
    \E c \in CallIds :
        /\ calls[c].pc = "raised"
        /\ calls[c].given_key = ""
        /\ calls[c].env_at_entry = None
        /\ calls[c].max_retries = 3
        /\ calls[c].exc = MissingKeyError

\* the call took the whole of hist from the transport, every entry in S
AllIn(c, S) == \A i \in 1..Len(calls[c].hist) : calls[c].hist[i] \in S

\* C4: 429 on attempts 1..N-1 and 200 with valid JSON on attempt N: the call
\* returns the decoded body after exactly N invocations, having slept
\* 1, 2, 4, 8, 8, ... (N-1 sleeps).
C4_RateLimitedThenSuccess ==
    \A c \in CallIds :
        LET h == calls[c].hist
            N == Len(h)
        IN  ( /\ N >= 1
              /\ N <= calls[c].max_retries
              /\ \A i \in 1..(N - 1) : h[i] = "429"
              /\ h[N] = "200ok" ) =>
                /\ calls[c].pc = "returned"
                /\ calls[c].value = [json |-> "object", members |-> {}]
                /\ calls[c].attempt = N
                /\ calls[c].sleeps = SubSeq(Schedule, 1, N - 1)

C4_Witness ==
    \E c \in CallIds :
        /\ calls[c].pc = "returned"
        /\ calls[c].hist = <<"429", "429", "429", "429", "429", "200ok">>
        /\ calls[c].sleeps = <<1, 2, 4, 8, 8>>

\* C5: a transport that raises on every attempt is invoked exactly
\* max_retries times with max_retries - 1 sleeps, and the call fails with the
\* error the final attempt raised.
C5_TransportErrorsExhaustBudget ==
    \A c \in CallIds :
        ( /\ Terminal(c)
          /\ calls[c].max_retries >= 1
          /\ calls[c].hist # <<>>
          /\ AllIn(c, {"ConnErr"}) ) =>
            /\ calls[c].pc = "raised"
            /\ Len(calls[c].hist) = calls[c].max_retries
            /\ Len(calls[c].sleeps) = calls[c].max_retries - 1
            /\ calls[c].exc.type = "ConnectionError"
            /\ calls[c].exc.attempt = calls[c].max_retries

C5_Witness ==
    \E c \in CallIds :
        /\ calls[c].pc = "raised"
        /\ calls[c].max_retries = 3
        /\ calls[c].hist = <<"ConnErr", "ConnErr", "ConnErr">>
        /\ calls[c].sleeps = <<1, 2>>
        /\ calls[c].exc = ConnectionError(3)

TransportFailures(c) ==
    {i \in 1..Len(calls[c].hist) : Response(calls[c].hist[i]).raises}

Largest(S) == CHOOSE x \in S : \A y \in S : y <= x

\* C7: the generic failure wraps nothing when no transport error occurred in
\* the call, and otherwise the last transport error of the call; never an
\* HTTP status error, never a decode error.
C7_ExhaustedWrapsLastTransportError ==
    \A c \in CallIds :
        (calls[c].pc = "raised" /\ calls[c].exc.type = "RuntimeError") =>
            /\ calls[c].cause.type \notin {"HTTPError", "ValueError:non-JSON"}
            /\ IF TransportFailures(c) = {}
               THEN calls[c].cause = NoErr
               ELSE calls[c].cause = ConnectionError(Largest(TransportFailures(c)))

\* C8: a value is returned only by an attempt whose response had a success
\* status and a decodable body, and it is that body decoded; every other
\* terminal state carries an error and no value.
C8_ValueOnlyFromDecodedSuccess ==
    \A c \in CallIds :
        LET h == calls[c].hist
        IN  /\ calls[c].pc = "returned" =>
                /\ h # <<>>
                /\ Len(h) = calls[c].attempt
                /\ ~Response(h[Len(h)]).raises
                /\ ~IsErrorCode(Status(h[Len(h)]))
                /\ Text(h[Len(h)]) = <<"{", "}">>
                /\ calls[c].value = [json |-> "object", members |-> {}]
                /\ calls[c].exc = NoErr
            /\ calls[c].pc = "raised" =>
                /\ calls[c].value = NoValue
                /\ calls[c].exc # NoErr
            /\ calls[c].pc \notin {"returned", "raised"} =>
                /\ calls[c].value = NoValue
                /\ calls[c].exc = NoErr

C8_Witness ==
    \E c \in CallIds :
        /\ calls[c].pc = "returned"
        /\ calls[c].hist = <<"ConnErr", "401", "200junk", "200ok">>
        /\ calls[c].value = [json |-> "object", members |-> {}]

\* C9: the sleep after attempt k lasts min(2^(k-1), 8) whatever ended the
\* attempt, so every duration is one of 1, 2, 4, 8 and the durations of a
\* call never decrease.
C9_BackoffKeyedByAttemptOnly ==
    \A c \in CallIds :
        LET sl == calls[c].sleeps
        IN  /\ \A k \in 1..Len(sl) :
                  /\ sl[k] = Schedule[k]
                  /\ sl[k] \in {1, 2, 4, 8}
                  /\ k > 1 => sl[k - 1] <= sl[k]
            /\ calls[c].pc = "sleep" =>
                  /\ calls[c].wait_s = Schedule[calls[c].attempt]
                  /\ Len(sl) = calls[c].attempt - 1

C9_Witness ==
    \E c \in CallIds :
        /\ calls[c].hist = <<"ConnErr", "429", "401", "200junk", "503", "ConnErr">>
        /\ calls[c].sleeps = <<1, 2, 4, 8, 8>>
        /\ calls[c].max_retries = 6

\* One call run alone from its arguments against the responses h: the locals
\* right after the last response was handled (after entry when h is empty).
RECURSIVE Alone(_, _, _)
Alone(rec0, e, h) ==
    IF h = <<>> THEN EnterRec(rec0, e)
    ELSE LET before == Alone(rec0, e, SubSeq(h, 1, Len(h) - 1))
             ready  == IF before.pc = "sleep" THEN SleepRec(before) ELSE before
         IN  PostRec(ready, h[Len(h)])

AloneOf(c) ==
    Alone(NewCall(calls[c].given_key, calls[c].max_retries),
          calls[c].env_at_entry, calls[c].hist)

\* what a caller and the spies of a call observe
Observed(rec) ==
    [pc |-> rec.pc, attempt |-> rec.attempt, sleeps |-> rec.sleeps,
     wait_s |-> rec.wait_s, value |-> rec.value, exc |-> rec.exc,
     cause |-> rec.cause]

SameAsAlone ==
    \A c \in CallIds :
        Started(c) =>
            \/ Observed(calls[c]) = Observed(AloneOf(c))
            \/ /\ AloneOf(c).pc = "sleep"
               /\ Observed(calls[c]) = Observed(SleepRec(AloneOf(c)))

OneCallPerStep ==
    \A c, d \in CallIds :
        (c # d /\ calls'[c] # calls[c]) => calls'[d] = calls[d]

\* C10: with two calls interleaved in any order, each call's attempt counter,
\* sleeps and outcome are those of the same call run alone against the
\* responses it received, and no step of one call changes the other's state.
C10_ConcurrentCallsIndependent == []SameAsAlone /\ [][OneCallPerStep]_vars

C10_Witness ==
    /\ calls[1].pc = "raised"
    /\ calls[1].hist = <<"429", "429">>
    /\ calls[1].exc = RequestFailed
    /\ calls[1].cause = NoErr
    /\ calls[2].pc = "sleep"
    /\ calls[2].hist = <<"ConnErr">>
    /\ calls[2].last_err = ConnectionError(1)

\* C11: the credential is the parameter when one is given and the value the
\* environment had at entry otherwise, and every attempt of the call sends
\* that credential as the bearer token, whatever the environment holds by then.
C11_CredentialResolvedOnceAtEntry ==
    \A c \in CallIds :
        LET given == calls[c].given_key
            cred  == IF given \notin {None, ""} THEN given ELSE calls[c].env_at_entry
        IN  Started(c) =>
              /\ calls[c].api_key = cred
              /\ \A i \in 1..Len(calls[c].sent) :
                    calls[c].sent[i].headers.Authorization = <<"Bearer", cred>>

C11_Witness ==
    \E c \in CallIds :
        /\ calls[c].given_key = None
        /\ calls[c].env_at_entry = "sk-env"
        /\ env = ""
        /\ Len(calls[c].sent) = 3
        /\ calls[c].sent[3].headers.Authorization = <<"Bearer", "sk-env">>

\* C12: on every attempt the request body has exactly the fields model,
\* messages, temperature and max_tokens, its messages are the caller's
\* sequence unchanged, and it is the body of the first attempt.
C12_PayloadCarriesMessagesVerbatim ==
    \A c \in CallIds : \A i \in 1..Len(calls[c].sent) :
        LET body == calls[c].sent[i].json
        IN  /\ DOMAIN body = {"model", "messages", "temperature", "max_tokens"}
            /\ Len(body.messages) = Len(calls[c].messages)
            /\ \A j \in 1..Len(body.messages) :
                  /\ body.messages[j].role = calls[c].messages[j].role
                  /\ body.messages[j].content = calls[c].messages[j].content
                  /\ DOMAIN body.messages[j] = {"role", "content"}
            /\ body.model = calls[c].model
            /\ body.temperature = calls[c].temperature
            /\ body.max_tokens = calls[c].max_tokens
            /\ body = calls[c].sent[1].json

C12_Witness ==
    \E c \in CallIds :
        /\ calls[c].messages = <<UserHi, AssistantHello, UserHi>>
        /\ Len(calls[c].sent) = 3
        /\ calls[c].sent[3].json.messages = <<UserHi, AssistantHello, UserHi>>
        /\ calls[c].sent[3].json.model = "deepseek-reasoner"

AttemptBudgetRespected ==
    \A c \in CallIds :
        LET n == Len(calls[c].sent)
        IN  /\ n = Len(calls[c].hist)
            /\ IF calls[c].max_retries >= 0 THEN n <= calls[c].max_retries ELSE n = 0
            /\ \A i \in 1..n : calls[c].sent[i].attempt = i
            /\ calls[c].pc = "post" => calls[c].attempt = n + 1
            /\ calls[c].pc \in {"sleep", "returned"} => calls[c].attempt = n /\ n >= 1
            /\ calls[c].pc = "raised" => calls[c].attempt = n

NothingAfterTheEnd ==
    \A c \in CallIds : Terminal(c) => calls'[c] = calls[c]

\* C13: a call never invokes the transport more than max_retries times, its
\* attempts carry the indexes 1, 2, ... in order with none skipped or
\* repeated, and once it has returned or raised it does nothing more.
C13_AttemptsBoundedAndConsecutive ==
    []AttemptBudgetRespected /\ [][NothingAfterTheEnd]_vars

C13_Witness ==
    \E c \in CallIds :
        /\ calls[c].pc = "raised"
        /\ calls[c].max_retries = 4
        /\ calls[c].hist = <<"ConnErr", "503", "401", "200junk">>
        /\ \A i \in 1..4 : calls[c].sent[i].attempt = i

\* C14: when every transport invocation and every sleep completes, every call
\* ends: it returns the decoded body or raises one error, whatever the
\* transport answers and whatever max_retries is.
C14_EveryCallEnds ==
    \A c \in CallIds : (calls[c].pc = "entry") ~> Terminal(c)

C14_Witness ==
    \E c \in CallIds :
        /\ calls[c].pc = "raised"
        /\ calls[c].max_retries = 4
        /\ calls[c].hist = <<"429", "ConnErr", "200junk", "503">>
        /\ calls[c].exc = RequestFailed

RetriableStatusAt(c, i) ==
    /\ ~Response(calls[c].hist[i]).raises
    /\ Status(calls[c].hist[i]) \in RetriableCodes

\* C15: transport errors and retriable statuses, in any mix, on attempts
\* 1..N-1 and a decodable success on attempt N: the call returns the decoded
\* body after N invocations and N-1 sleeps and surfaces none of the errors.
C15_RetriableMixThenSuccess ==
    \A c \in CallIds :
        LET h == calls[c].hist
            N == Len(h)
        IN  /\ ( /\ N >= 1
                 /\ h[N] = "200ok"
                 /\ \A i \in 1..(N - 1) :
                       Response(h[i]).raises \/ RetriableStatusAt(c, i) ) =>
                   /\ calls[c].pc = "returned"
                   /\ calls[c].value = [json |-> "object", members |-> {}]
                   /\ Len(calls[c].sent) = N
                   /\ calls[c].attempt = N
                   /\ Len(calls[c].sleeps) = N - 1
                   /\ calls[c].exc = NoErr
                   /\ calls[c].cause = NoErr
            \* before the last attempt of the budget such conditions end nothing
            /\ ( /\ calls[c].attempt >= 1
                 /\ N < calls[c].max_retries
                 /\ \A i \in 1..N :
                       Response(h[i]).raises \/ RetriableStatusAt(c, i) ) =>
                   /\ calls[c].pc \in {"post", "sleep"}
                   /\ calls[c].exc = NoErr
                   /\ Len(calls[c].sleeps) \in {N - 1, N}

C15_Witness ==
    \E c \in CallIds :
        /\ calls[c].pc = "returned"
        /\ calls[c].hist = <<"ConnErr", "503", "429", "ConnErr", "200ok">>
        /\ calls[c].last_err = ConnectionError(4)
        /\ calls[c].sleeps = <<1, 2, 4, 8>>

RaisedRequestFailed(c) ==
    calls[c].pc = "raised" /\ calls[c].exc.type = "RuntimeError"

RECURSIVE Sum(_)
Sum(seq) == IF seq = <<>> THEN 0 ELSE seq[1] + Sum(Tail(seq))

\* C17: with every attempt over within timeout units, a call has slept at
\* most 8 x max_retries units and has taken at most
\* max_retries x (timeout + 8) units in all, at every point of the call.
C17_ElapsedTimeBounded ==
    \A c \in CallIds :
        LET budget == IF calls[c].max_retries > 0 THEN calls[c].max_retries ELSE 0
            asleep == Sum(calls[c].sleeps)
        IN  /\ asleep <= 8 * budget
            /\ calls[c].elapsed <= budget * (calls[c].timeout_s + 8)
            /\ calls[c].elapsed - asleep <= Len(calls[c].hist) * calls[c].timeout_s
            /\ calls[c].elapsed >= asleep

C17_Witness ==
    \E c \in CallIds :
        /\ calls[c].pc = "raised"
        /\ calls[c].max_retries = 6
        /\ calls[c].timeout_s = 2
        /\ calls[c].sleeps = <<1, 2, 4, 8, 8, 8>>
        /\ calls[c].elapsed = 43

HasCredential(c) ==
    calls[c].given_key \notin {None, ""} \/ calls[c].env_at_entry \notin {None, ""}

\* C18: with a credential and max_retries of 0 or less the loop body never
\* runs: no transport invocation, no sleep, and the call raises the generic
\* failure with no cause, not the missing-credential error.
C18_NoAttemptsWithoutBudget ==
    \A c \in CallIds :
        (Started(c) /\ HasCredential(c) /\ calls[c].max_retries <= 0) =>
            /\ calls[c].pc = "raised"
            /\ calls[c].exc.type = "RuntimeError"
            /\ calls[c].exc.type # "ValueError:missing-api_key"
            /\ calls[c].cause = NoErr
            /\ calls[c].hist = <<>>
            /\ calls[c].sent = <<>>
            /\ calls[c].sleeps = <<>>
            /\ calls[c].elapsed = 0

C18_Witness ==
    \E c \in CallIds :
        /\ calls[c].pc = "raised"
        /\ calls[c].max_retries = 0 - 1
        /\ calls[c].api_key = "sk-env"
        /\ calls[c].exc = RequestFailed
        /\ calls[c].cause = NoErr

====
